---- MODULE Spec2Model ----
(***************************************************************************)
(* Model of sample_builder.py, the generator of large_sample.csv.          *)
(*                                                                         *)
(* The script opens the output file, writes the header, and runs one loop  *)
(* whose body draws a type, then a tx or an amount, then a client, and     *)
(* writes one formatted line.  The random draws are the inputs of the      *)
(* actions.  An I/O failure (OSError from open or from f.write) ends the   *)
(* run; the with statement closes the handle on every exit.                *)
(*                                                                         *)
(* Numbers.  A float amount is an integer count of millionths, so that     *)
(* the "%.4f" conversion has two digits to round away.  A formatted amount *)
(* is an integer count of ten-thousandths (its four fractional digits).    *)
(*                                                                         *)
(* The file.  `lines` is the number of lines of the file and `file` maps   *)
(* line numbers to lines.  The model retains line 1, the newest line and   *)
(* one data line in between, chosen freely among the two data lines it     *)
(* held before the write: every pair of data lines of every file the       *)
(* script can produce appears together in some reachable state.            *)
(*                                                                         *)
(* Scale.  The script sets MAX_CLIENTS = 20 and MAX_TRANSACTIONS =         *)
(* MAX_CLIENTS * 100; the model keeps the product and scales both factors. *)
(***************************************************************************)
EXTENDS Integers, Sequences, FiniteSets, TLC

\* MAX_CLIENTS (20 in the script) and the factor of MAX_TRANSACTIONS (100).
MAX_CLIENTS == 2
TX_PER_CLIENT == 2
\* Lines a file left by an earlier run can hold before open() truncates it.
MaxOldLines == 2

TYPES == <<"deposit", "withdrawal", "dispute", "resolve", "chargeback">>
TYPE_WEIGHTS == <<10, 8, 4, 2, 1>>
MAX_AMOUNT == 1000
MAX_TRANSACTIONS == MAX_CLIENTS * TX_PER_CLIENT

REFERENCE_TYPES == {"dispute", "resolve", "chargeback"}
MONETARY_TYPES == {"deposit", "withdrawal"}
HEADER == [text |-> "type,client,tx,amount"]
OLD_LINE == [text |-> "old"]

\* Millionths in one unit of amount; ten-thousandths in one unit ("%.4f").
Unit == 10 ^ 6
Unit4 == 10 ^ 4

\* random.choices(population, weights)[0]: any element of positive weight.
Choices(population, weights) ==
    { population[k] : k \in { n \in DOMAIN population : weights[n] > 0 } }

\* random.randint(a, b): any integer of [a, b].
RandInt(a, b) == a .. b

\* range(a, b): the integers a, ..., b-1.
RangeInclusive(a, b) == a .. b

Range(a, b) == a .. (b - 1)

\* Floats the model draws from (millionths): the least value of
\* [1, MAX_AMOUNT), an exact tie of "%.4f" (33/32 = 1.03125), the greatest
\* value below MAX_AMOUNT, and two values outside the range, which
\* random.uniform(1, MAX_AMOUNT) never returns.
FloatGrid ==
    { Unit - 51, Unit, (33 * Unit) \div 32, MAX_AMOUNT * Unit - 1,
      MAX_AMOUNT * Unit }

\* random.uniform(a, b) = a + (b-a) * random(), random() in [0, 1).  For
\* a = 1, b = 1000 the largest double it returns is 1000 - 2^-43 < 1000.
Uniform(a, b) == { x \in FloatGrid : a * Unit <= x /\ x < b * Unit }

\* "%.4f" % x: x rounded to four fractional digits, ties to even.
Format4f(x) ==
    LET q == x \div (Unit \div Unit4)
        r == x % (Unit \div Unit4)
        half == (Unit \div Unit4) \div 2
    IN  IF r > half \/ (r = half /\ q % 2 = 1) THEN q + 1 ELSE q

\* "%s,%d,%d,%.4f\n" % (type, client, tx, amount), with a variant that
\* relabels a monetary-shaped row.
FormatRowRelabel(ty, client, t, a) ==
    [type |-> IF a > 0 /\ ty \in REFERENCE_TYPES THEN "deposit" ELSE ty,
     client |-> client, tx |-> t, amount |-> Format4f(a)]

FormatRow(ty, client, t, a) ==
    [type |-> ty, client |-> client, tx |-> t, amount |-> Format4f(a)]

VARIABLES pc, f, i, type, tx, amount, draws, lines, file

vars == <<pc, f, i, type, tx, amount, draws, lines, file>>

\* The draws of one iteration, in the order the body makes them.
TypeDraw == Choices(TYPES, TYPE_WEIGHTS)

\* type in ('dispute', 'resolve', 'chargeback') and i > 1
Reference(ty, idx) == ty \in REFERENCE_TYPES /\ idx > 1

TxDrawInclusive(idx) == RandInt(1, idx)

TxDrawValidated(idx) ==
    { j \in RandInt(1, idx - 1) :
        (j + 1) \in DOMAIN file => file[j + 1].type \in MONETARY_TYPES }

TxDraw(idx) == RandInt(1, idx - 1)

AmountDrawFromZero == Uniform(0, MAX_AMOUNT)

AmountDraw == Uniform(1, MAX_AMOUNT)

ClientDrawHalfOpen == RandInt(1, MAX_CLIENTS - 1)

ClientDraw == RandInt(1, MAX_CLIENTS)

\* tx as the body assigns it: the draw on a reference row, else i.
TxOfPrevious(ty, d, idx) == IF Reference(ty, idx) THEN d ELSE idx - 1

TxOf(ty, d, idx) == IF Reference(ty, idx) THEN d ELSE idx

\* amount as the body assigns it: 0.0 on a reference row, else the draw.
AmountOf(ty, d, idx) == IF Reference(ty, idx) THEN 0 ELSE d

\* The calls to the random module one iteration makes, in order.
DrawLogClientFirst(ty, d, c, idx) ==
    << [fn |-> "randint", val |-> c],
       [fn |-> "choices", val |-> ty],
       [fn |-> IF Reference(ty, idx) THEN "randint" ELSE "uniform", val |-> d] >>

DrawLog(ty, d, c, idx) ==
    << [fn |-> "choices", val |-> ty],
       [fn |-> IF Reference(ty, idx) THEN "randint" ELSE "uniform", val |-> d],
       [fn |-> "randint", val |-> c] >>

\* The file after f.write(line): line 1, the new line, and the data line
\* keep in between (keep = 0: there is none yet).
Write(line, keep) ==
    LET n == lines + 1
        dom == {1, n} \cup (IF keep = 0 THEN {} ELSE {keep})
    IN  [k \in dom |-> IF k = n THEN line ELSE file[k]]

\* The data lines one of which stays retained at the next write.
Kept == IF DOMAIN file \ {1} = {} THEN {0} ELSE DOMAIN file \ {1}

\* Before the script runs the file is absent or holds an earlier run's lines.
Init ==
    /\ pc = "open"
    /\ f = "none"
    /\ i = 0
    /\ type = "none"
    /\ tx = 0
    /\ amount = 0
    /\ draws = <<>>
    /\ lines \in 0 .. MaxOldLines
    /\ file = [k \in (IF lines = 0 THEN {} ELSE {1, lines}) |-> OLD_LINE]

\* The interpreter exits: the module's variables no longer exist.
Exit ==
    /\ i' = 0
    /\ type' = "none"
    /\ tx' = 0
    /\ amount' = 0
    /\ draws' = <<>>

\* with open('large_sample.csv', 'w') as f: mode 'w' truncates the file.
\* A failing open raises before f is bound; the file is left as it was.
OpenAppend(ok) ==
    /\ pc = "open"
    /\ IF ok
       THEN /\ pc' = "header"
            /\ f' = "open"
            /\ UNCHANGED <<lines, file, i, type, tx, amount, draws>>
       ELSE /\ pc' = "failed"
            /\ UNCHANGED <<f, lines, file>>
            /\ Exit

Open(ok) ==
    /\ pc = "open"
    /\ IF ok
       THEN /\ pc' = "header"
            /\ f' = "open"
            /\ lines' = 0
            /\ file' = <<>>
            /\ UNCHANGED <<i, type, tx, amount, draws>>
       ELSE /\ pc' = "failed"
            /\ UNCHANGED <<f, lines, file>>
            /\ Exit

\* f.write('type,client,tx,amount\n'); an OSError leaves the with block,
\* which closes f, and ends the run.
WriteHeaderNoWith(ok) ==
    /\ pc = "header"
    /\ IF ok
       THEN /\ pc' = "loop"
            /\ lines' = lines + 1
            /\ file' = Write(HEADER, 0)
            /\ UNCHANGED <<f, i, type, tx, amount, draws>>
       ELSE /\ pc' = "failed"
            /\ UNCHANGED <<f, lines, file>>
            /\ Exit

WriteHeader(ok) ==
    /\ pc = "header"
    /\ IF ok
       THEN /\ pc' = "loop"
            /\ lines' = lines + 1
            /\ file' = Write(HEADER, 0)
            /\ UNCHANGED <<f, i, type, tx, amount, draws>>
       ELSE /\ pc' = "failed"
            /\ f' = "closed"
            /\ UNCHANGED <<lines, file>>
            /\ Exit

\* One iteration of  for i in range(1, MAX_TRANSACTIONS):  in which the
\* type drawn is ty, then the tx or amount drawn is d, then the client drawn
\* (inside the format tuple) is c, and f.write succeeds.
Iteration(ty, d, c) ==
    /\ pc = "loop"
    /\ (i + 1) \in Range(1, MAX_TRANSACTIONS)
    /\ ty \in TypeDraw
    /\ d \in (IF Reference(ty, i + 1) THEN TxDraw(i + 1) ELSE AmountDraw)
    /\ c \in ClientDraw
    /\ i' = i + 1
    /\ type' = ty
    /\ tx' = TxOf(ty, d, i + 1)
    /\ amount' = AmountOf(ty, d, i + 1)
    /\ draws' = DrawLog(ty, d, c, i + 1)
    /\ lines' = lines + 1
    /\ \E keep \in Kept : file' = Write(FormatRow(type', c, tx', amount'), keep)
    /\ UNCHANGED <<pc, f>>

\* The same iteration when f.write raises OSError: whatever was drawn, the
\* exception leaves the with block, which closes f, and ends the run.
IterationFails ==
    /\ pc = "loop"
    /\ (i + 1) \in Range(1, MAX_TRANSACTIONS)
    /\ TypeDraw # {} /\ ClientDraw # {}
    /\ pc' = "failed"
    /\ f' = "closed"
    /\ UNCHANGED <<lines, file>>
    /\ Exit

LoopBody ==
    \/ \E ty \in TypeDraw :
         \E d \in (IF Reference(ty, i + 1) THEN TxDraw(i + 1) ELSE AmountDraw) :
           \E c \in ClientDraw : Iteration(ty, d, c)
    \/ IterationFails

\* range(1, MAX_TRANSACTIONS) is exhausted: the with block ends and closes f.
LoopExit ==
    /\ pc = "loop"
    /\ (i + 1) \notin Range(1, MAX_TRANSACTIONS)
    /\ pc' = "done"
    /\ f' = "closed"
    /\ UNCHANGED <<lines, file>>
    /\ Exit

Next ==
    \/ \E ok \in BOOLEAN : Open(ok)
    \/ \E ok \in BOOLEAN : WriteHeader(ok)
    \/ LoopBody
    \/ LoopExit

Spec == Init /\ [][Next]_vars

----------------------------------------------------------------------------
\* The lines of the file the run has written: none before open() succeeds.
Generated == f # "none"

IsRow(l) == DOMAIN l = {"type", "client", "tx", "amount"}

\* Line numbers of the retained data lines; the row at line n has position n-1.
Rows == IF Generated THEN DOMAIN file \ {1} ELSE {}

RefRow(n) == file[n].type \in REFERENCE_TYPES /\ n - 1 > 1

\* C1: a run without I/O failure ends with MAX_CLIENTS*TX_PER_CLIENT lines,
\* the header and MAX_TRANSACTIONS - 1 data rows, one per loop index: while
\* the loop runs the file holds the header and i rows.
RowCount ==
    /\ pc = "done" =>
         /\ lines = MAX_CLIENTS * TX_PER_CLIENT
         /\ lines - 1 = MAX_TRANSACTIONS - 1
         /\ file[1] = HEADER
         /\ \A n \in DOMAIN file \ {1} : IsRow(file[n])
    /\ pc = "loop" => lines = i + 1 /\ i <= MAX_TRANSACTIONS - 1

RowCountWitness ==
    pc = "done" /\ lines > 2 /\ IsRow(file[lines])

\* C2: a reference-type row at position p >= 2 has 1 <= tx <= p-1; a
\* deposit or withdrawal row, and any row at position 1, has tx = p.
TxRule ==
    \A n \in Rows :
        LET p == n - 1
            r == file[n]
        IN  /\ (p >= 2 /\ r.type \in REFERENCE_TYPES) => (1 <= r.tx /\ r.tx <= p - 1)
            /\ (r.type \in MONETARY_TYPES \/ p = 1) => r.tx = p

TxRuleWitness ==
    /\ Cardinality(Rows) = 2
    /\ \E n \in Rows : n - 1 = 1 /\ file[n].type \in REFERENCE_TYPES
    /\ \E n \in Rows : RefRow(n) /\ file[n].tx = n - 2

\* C3 as stated: a reference row past position 1 has amount 0.0000, any
\* other row has 1.0000 <= amount < 1000.0000 as written.
AmountRuleStrict ==
    \A n \in Rows :
        IF RefRow(n)
        THEN file[n].amount = 0
        ELSE 1 * Unit4 <= file[n].amount /\ file[n].amount < MAX_AMOUNT * Unit4

\* C3 amended: a reference row past position 1 has amount 0.0000, any other
\* row has 1.0000 <= amount <= 1000.0000 as written; the value drawn is below
\* 1000 and "%.4f" can round it up to 1000.0000.
AmountRule ==
    /\ \A n \in Rows :
        IF RefRow(n)
        THEN file[n].amount = 0
        ELSE 1 * Unit4 <= file[n].amount /\ file[n].amount <= MAX_AMOUNT * Unit4
    /\ (pc = "loop" /\ i >= 1 /\ ~ Reference(type, i)) =>
         (1 * Unit <= amount /\ amount < MAX_AMOUNT * Unit)

AmountRuleWitness ==
    /\ \E n \in Rows : ~ RefRow(n) /\ file[n].amount = MAX_AMOUNT * Unit4
    /\ \E n \in Rows : RefRow(n) /\ file[n].amount = 0

\* C4: once the run has written anything, line 1 is the header; the header
\* appears on no other line, and it is written before the loop starts.
HeaderFirst ==
    /\ (Generated /\ lines >= 1) => file[1] = HEADER
    /\ \A n \in Rows : file[n] # HEADER /\ IsRow(file[n])
    /\ pc = "header" => lines = 0
    /\ (pc = "loop" \/ pc = "done") => lines >= 1

HeaderFirstWitness ==
    pc = "loop" /\ lines = 3 /\ file[1] = HEADER /\ 2 \in Rows /\ IsRow(file[2])

\* C5: among deposit and withdrawal rows tx is the row's own position, so
\* two of them never share a tx and tx grows strictly down the file.
MonetaryTxUnique ==
    \A m \in Rows : \A n \in Rows :
        (file[m].type \in MONETARY_TYPES /\ file[n].type \in MONETARY_TYPES) =>
            /\ file[m].tx = m - 1
            /\ m < n => file[m].tx < file[n].tx
            /\ m # n => file[m].tx # file[n].tx

MonetaryTxUniqueWitness ==
    \E m \in Rows : \E n \in Rows :
        /\ m < n
        /\ file[m].type = "deposit"
        /\ file[n].type = "withdrawal"

\* C6: every row's type is one of TYPES, and the row just written carries
\* the type drawn in its iteration, also at position 1.
TypeDomain ==
    /\ \A n \in Rows : \E k \in DOMAIN TYPES : file[n].type = TYPES[k]
    /\ (pc = "loop" /\ i >= 1) => file[lines].type = type

TypeDomainWitness ==
    /\ pc = "loop"
    /\ i = 1
    /\ type = "chargeback"
    /\ file[lines].type = "chargeback"
    /\ file[lines].tx = 1
    /\ file[lines].amount >= 1 * Unit4

\* C7: every row has 1 <= client <= MAX_CLIENTS, and whatever type an
\* iteration writes, every client of that range can be written with it.
ClientRange ==
    /\ \A n \in Rows : 1 <= file[n].client /\ file[n].client <= MAX_CLIENTS
    /\ (pc = "loop" /\ (i + 1) \in Range(1, MAX_TRANSACTIONS)) =>
         \A k \in DOMAIN TYPES : \A c \in 1 .. MAX_CLIENTS :
            \E d \in FloatGrid \cup (1 .. i) :
                ENABLED (Iteration(TYPES[k], d, c)
                         /\ file'[lines'].type = TYPES[k]
                         /\ file'[lines'].client = c)

ClientRangeWitness ==
    /\ \E n \in Rows : RefRow(n) /\ file[n].client = MAX_CLIENTS
    /\ \E n \in Rows : file[n].type \in MONETARY_TYPES /\ file[n].client = 1

\* C8: the line an iteration writes is fixed by the iteration's index and its
\* three draws, made in the order type, then tx (reference row) or amount
\* (monetary row), then client.
DrawOrder ==
    (pc = "loop" /\ i >= 1) =>
        /\ Len(draws) = 3
        /\ draws[1].fn = "choices"
        /\ draws[2].fn = (IF Reference(draws[1].val, i) THEN "randint" ELSE "uniform")
        /\ draws[3].fn = "randint"
        /\ file[lines] =
             [type |-> draws[1].val,
              client |-> draws[3].val,
              tx |-> IF Reference(draws[1].val, i) THEN draws[2].val ELSE i,
              amount |-> IF Reference(draws[1].val, i) THEN 0
                         ELSE Format4f(draws[2].val)]

DrawOrderWitness ==
    /\ pc = "loop"
    /\ i = 2
    /\ draws[1].val = "dispute"
    /\ draws[2].fn = "randint"
    /\ draws[3].val = 2
    /\ file[lines].client = 2

\* C9: an I/O failure is fatal.  The failing operation writes nothing, the
\* failed run takes no further step, an exited run holds no open handle, and
\* a failed open binds no handle and leaves the file as it was.
IOFailureFatal ==
    /\ [][ /\ pc # "failed"
           /\ pc' = "failed" => (lines' = lines /\ file' = file /\ f' # "open")
           /\ (pc = "open" /\ pc' = "failed") => f' = "none" ]_vars
    /\ []((pc = "done" \/ pc = "failed") => f # "open")
    /\ []((pc = "done") => f = "closed")

IOFailureFatalWitness ==
    pc = "failed" /\ f = "closed" /\ lines = 2

\* C10: the tx of a reference row is not validated.  Whatever rows the file
\* holds, the next reference row can carry any earlier position as its tx,
\* whichever of its three types it has.
TxUnvalidated ==
    (pc = "loop" /\ i >= 1 /\ (i + 1) \in Range(1, MAX_TRANSACTIONS)) =>
        \A j \in 1 .. i : \A ty \in REFERENCE_TYPES :
            \E c \in 1 .. MAX_CLIENTS :
                ENABLED (Iteration(ty, j, c)
                         /\ file'[lines'].type = ty
                         /\ file'[lines'].tx = j
                         /\ ((j + 1) \in DOMAIN file => (j + 1) \in DOMAIN file'))

TxUnvalidatedWitness ==
    \E m \in Rows : \E n \in Rows :
        /\ RefRow(n)
        /\ file[n].tx = m - 1
        /\ RefRow(m)
        /\ file[m].tx # m - 1
        /\ file[m].client # file[n].client

====
